---- MODULE Spec2Model ----
(***************************************************************************)
(* Model of extract_transactions (src/app.py) and of the display block     *)
(* that calls it.                                                          *)
(*                                                                         *)
(* A page text is a sequence of characters, each character a one-element   *)
(* string.  The CJK characters of the markers and of the action keywords   *)
(* are written with romanised names:                                       *)
(*   mai_sell chu ping cang          = the sell keyword   (line 54, 66)    *)
(*   mai_buy ru kai cang             = the buy keyword    (line 54, 66)    *)
(*   jiao yi - gu piao he_and gu piao qi quan = section marker (line 28)   *)
(*   bian dong jin e                 = start_marker       (line 34)        *)
(*   cheng jiao jin e he_total ji_count :  = end_marker   (line 35)        *)
(*   jiao yi - ji_base jin           = fallback marker    (line 46)        *)
(* The character "N" stands for a run of 309 digits 9: a literal whose     *)
(* integer part holds it is a float literal beyond the largest double, so  *)
(* float() gives inf and int() of it raises OverflowError.                 *)
(* Indexes are Python's: 0-based, -1 for "not found".                      *)
(***************************************************************************)
EXTENDS Integers, Sequences, FiniteSets, TLC

MaxPages == 2
MaxLines == 2

----------------------------------------------------------------------------
(* Characters and literals of the source *)

Whitespace == {" ", "\n"}
Digits == {"0", "1", "2", "5", "N"}
Upper == {"A", "D", "H", "K", "R"}
NumChars == Digits \cup {",", "."}

KSell == <<"mai_sell", "chu", "ping", "cang">>
KBuy == <<"mai_buy", "ru", "kai", "cang">>
SectionMarker == <<"jiao", "yi", "-", "gu", "piao", "he_and", "gu", "piao", "qi", "quan">>
StartMarker == <<"bian", "dong", "jin", "e">>
EndMarker == <<"cheng", "jiao", "jin", "e", "he_total", "ji_count", ":">>
FallbackMarker == <<"jiao", "yi", "-", "ji_base", "jin">>

None == [kind |-> "None"]

----------------------------------------------------------------------------
(* Python string primitives *)

Min(a, b) == IF a < b THEN a ELSE b

\* s[a:b] for 0 <= a, 0 <= b
Slice(s, a, b) == SubSeq(s, a + 1, Min(b, Len(s)))

\* s[a:]
SliceFrom(s, a) == SubSeq(s, a + 1, Len(s))

\* s.startswith(m, p)
MatchAt(s, m, p) ==
    /\ p + Len(m) <= Len(s)
    /\ \A k \in 1..Len(m) : s[p + k] = m[k]

\* s.find(m)
Find(s, m) ==
    LET hits == {p \in 0..Len(s) : MatchAt(s, m, p)}
    IN  IF hits = {} THEN -1 ELSE CHOOSE p \in hits : \A q \in hits : p <= q

\* m in s
Contains(s, m) == Find(s, m) # -1

\* not s.strip()
StripIsEmpty(s) == \A k \in 1..Len(s) : s[k] \in Whitespace

RECURSIVE SplitWordsFrom(_, _, _)
SplitWordsFrom(s, k, cur) ==
    IF k > Len(s)
    THEN IF cur = <<>> THEN <<>> ELSE <<cur>>
    ELSE IF s[k] \in Whitespace
         THEN (IF cur = <<>> THEN <<>> ELSE <<cur>>) \o SplitWordsFrom(s, k + 1, <<>>)
         ELSE SplitWordsFrom(s, k + 1, Append(cur, s[k]))

\* s.split()
SplitWords(s) == SplitWordsFrom(s, 1, <<>>)

RECURSIVE Join(_)
\* ' '.join(words)
Join(words) ==
    IF words = <<>> THEN <<>>
    ELSE IF Len(words) = 1 THEN words[1]
    ELSE words[1] \o <<" ">> \o Join(Tail(words))

RECURSIVE RemoveCommas(_)
\* s.replace(',', '')
RemoveCommas(s) ==
    IF s = <<>> THEN <<>>
    ELSE IF Head(s) = "," THEN RemoveCommas(Tail(s))
    ELSE <<Head(s)>> \o RemoveCommas(Tail(s))

----------------------------------------------------------------------------
(* re.split(r'(?=sell|buy)', block): a zero-width cut at every keyword *)

KeywordAt(s, p) == MatchAt(s, KSell, p) \/ MatchAt(s, KBuy, p)

RECURSIVE SplitAt(_, _, _)
SplitAt(s, last, p) ==
    IF p >= Len(s) THEN <<Slice(s, last, Len(s))>>
    ELSE IF KeywordAt(s, p) THEN <<Slice(s, last, p)>> \o SplitAt(s, p, p + 1)
    ELSE SplitAt(s, last, p + 1)

\* a split that never cuts at an empty match (re.split before Python 3.7)
ReSplitNoEmptyMatch(block) == <<block>>

ReSplit(block) == SplitAt(block, 0, 0)

----------------------------------------------------------------------------
(* pattern.search(clean_text), lines 65-70.                                *)
(*                                                                         *)
(* clean_text is ' '.join(trans_text.split()): words separated by exactly  *)
(* one space, no space at either end.  On such a string the pattern        *)
(*   (sell|buy)\s+(.*?)\s+([A-Z]{3})\s+.*?                                 *)
(*   ([\d,.]+)\s+([\d,.]+)\s+(-?[\d,.]+)\s+(-?[\d,.]+)                     *)
(* matches as follows.  group 1 is a keyword that ends word i (a \s+       *)
(* follows it).  group 2 starts at word i+1 and ends before a \s+, so it   *)
(* is the words i+1..j-1 joined, and it cannot be empty because only one   *)
(* space separates two words.  group 3 is the whole word j, three upper-   *)
(* case letters.  The lazy .*? then skips to the first place from which    *)
(* [\d,.]+ runs to the end of a word m > j: group 4 is the longest numeric *)
(* suffix of word m.  Group 5 is the whole word m+1, group 6 the whole     *)
(* word m+2, group 7 the longest prefix of word m+3 of the form -?[\d,.]+. *)
(* Backtracking tries the leftmost keyword first, then the shortest group  *)
(* 2, then the shortest skip: the match is the least (i, j, m).            *)
(***************************************************************************)

EndsWith(w, k) == Len(w) >= Len(k) /\ MatchAt(w, k, Len(w) - Len(k))

EndsWithKeyword(w) == EndsWith(w, KSell) \/ EndsWith(w, KBuy)

\* [A-Z]{3} between two \s+
IsCcy(w) == Len(w) = 3 /\ \A k \in 1..3 : w[k] \in Upper

\* [\d,.]+ over a whole word
IsNum(w) == w # <<>> /\ \A k \in 1..Len(w) : w[k] \in NumChars

\* -?[\d,.]+ over a whole word
IsSignedNum(w) == IsNum(w) \/ (w # <<>> /\ w[1] = "-" /\ IsNum(Tail(w)))

\* the longest suffix of w made of [\d,.]
NumSuffix(w) ==
    LET lens == {n \in 0..Len(w) : \A k \in (Len(w) - n + 1)..Len(w) : w[k] \in NumChars}
        n == CHOOSE x \in lens : \A y \in lens : y <= x
    IN  SubSeq(w, Len(w) - n + 1, Len(w))

\* the longest prefix of w made of [\d,.]
NumPrefix(w) ==
    LET lens == {n \in 0..Len(w) : \A k \in 1..n : w[k] \in NumChars}
        n == CHOOSE x \in lens : \A y \in lens : y <= x
    IN  SubSeq(w, 1, n)

\* the longest prefix of w of the form -?[\d,.]+, or <<>>
SignedNumPrefix(w) ==
    IF w # <<>> /\ w[1] = "-"
    THEN IF NumPrefix(Tail(w)) = <<>> THEN <<>> ELSE <<"-">> \o NumPrefix(Tail(w))
    ELSE NumPrefix(w)

MatchPositions(words) ==
    LET n == Len(words)
    IN  {t \in (1..n) \X (1..n) \X (1..n) :
            /\ EndsWithKeyword(words[t[1]])
            /\ t[2] >= t[1] + 2
            /\ IsCcy(words[t[2]])
            /\ t[3] > t[2]
            /\ t[3] + 3 <= n
            /\ NumSuffix(words[t[3]]) # <<>>
            /\ IsNum(words[t[3] + 1])
            /\ IsSignedNum(words[t[3] + 2])
            /\ SignedNumPrefix(words[t[3] + 3]) # <<>>}

\* group 2 as (\S+): one word
Group2OneWord(words, i, j) == words[i + 1]

\* group 2, (.*?): the words between the keyword and the currency
Group2(words, i, j) == Join(SubSeq(words, i + 1, j - 1))

LexLess(a, b) ==
    \/ a[1] < b[1]
    \/ a[1] = b[1] /\ a[2] < b[2]
    \/ a[1] = b[1] /\ a[2] = b[2] /\ a[3] <= b[3]

PatternSearch(clean_text) ==
    LET words == SplitWords(clean_text)
        cands == MatchPositions(words)
    IN  IF cands = {} THEN None
        ELSE LET t == CHOOSE a \in cands : \A b \in cands : LexLess(a, b)
                 i == t[1]
                 j == t[2]
                 m == t[3]
             IN  [kind |-> "match",
                  group1 |-> IF EndsWith(words[i], KSell) THEN KSell ELSE KBuy,
                  group2 |-> Group2(words, i, j),
                  group3 |-> words[j],
                  group4 |-> NumSuffix(words[m]),
                  group5 |-> words[m + 1],
                  group6 |-> words[m + 2],
                  group7 |-> SignedNumPrefix(words[m + 3])]

----------------------------------------------------------------------------
(* float() and int(), lines 86-99.  A float is kept as its sign, the       *)
(* digits of its integer part without leading zeros and the digits of its  *)
(* fraction without trailing zeros; inf marks a literal too large for a    *)
(* double.                                                                 *)

Chars(s) == {s[k] : k \in 1..Len(s)}

Unsigned(s) == IF s # <<>> /\ s[1] = "-" THEN Tail(s) ELSE s

\* float(s) does not raise ValueError
FloatSyntax(s) ==
    LET b == Unsigned(s)
    IN  /\ Chars(b) \subseteq Digits \cup {"."}
        /\ Cardinality({k \in 1..Len(b) : b[k] = "."}) <= 1
        /\ Chars(b) \cap Digits # {}

RECURSIVE StripLeadingZeros(_)
StripLeadingZeros(d) ==
    IF d # <<>> /\ Head(d) = "0" THEN StripLeadingZeros(Tail(d)) ELSE d

RECURSIVE StripTrailingZeros(_)
StripTrailingZeros(d) ==
    IF d # <<>> /\ d[Len(d)] = "0" THEN StripTrailingZeros(SubSeq(d, 1, Len(d) - 1)) ELSE d

\* float(s), for s with FloatSyntax(s)
ToFloat(s) ==
    LET b == Unsigned(s)
        dot == Find(b, <<".">>)
        ip == StripLeadingZeros(IF dot = -1 THEN b ELSE Slice(b, 0, dot))
        fp == StripTrailingZeros(IF dot = -1 THEN <<>> ELSE SliceFrom(b, dot + 1))
    IN  [neg |-> s # <<>> /\ s[1] = "-", ip |-> ip, fp |-> fp, inf |-> "N" \in Chars(ip)]

DigitVal(c) == CASE c = "0" -> 0 [] c = "1" -> 1 [] c = "2" -> 2 [] c = "5" -> 5

RECURSIVE DigitsVal(_)
DigitsVal(d) == IF d = <<>> THEN 0 ELSE 10 * DigitsVal(SubSeq(d, 1, Len(d) - 1)) + DigitVal(d[Len(d)])

\* int(v) for a finite float v: truncation toward zero
ToInt(v) == IF v.neg THEN 0 - DigitsVal(v.ip) ELSE DigitsVal(v.ip)

\* line 84
ActionOf(action_chinese) == IF Contains(action_chinese, KSell) THEN "Sell" ELSE "Buy"

\* the first literal taken as the price whatever it holds
PickPriceFirst(val1_str, val1, val2) == val1

\* line 90
PickPrice(val1_str, val1, val2) == IF "." \in Chars(val1_str) THEN val1 ELSE val2

\* line 91
PickQuantity(val1_str, val1, val2) == IF "." \in Chars(val1_str) THEN val2 ELSE val1

\* the body of the inner try, lines 73-107, for a match m
Coerce(m) ==
    LET val1_str == RemoveCommas(m.group4)
        val2_str == RemoveCommas(m.group5)
        amount_str == RemoveCommas(m.group6)
        change_str == RemoveCommas(m.group7)
    IN  IF \E s \in {val1_str, val2_str, amount_str, change_str} : ~FloatSyntax(s)
        THEN [kind |-> "ValueError"]
        ELSE LET val1 == ToFloat(val1_str)
                 val2 == ToFloat(val2_str)
                 price == PickPrice(val1_str, val1, val2)
                 quantity == PickQuantity(val1_str, val1, val2)
             IN  IF quantity.inf
                 THEN [kind |-> "OverflowError"]
                 ELSE [kind |-> "record",
                       rec |-> [Action |-> ActionOf(m.group1),
                                StockName |-> m.group2,
                                Quantity |-> ToInt(quantity),
                                Price |-> price,
                                Amount |-> ToFloat(amount_str),
                                Currency |-> m.group3,
                                NetChange |-> ToFloat(change_str)]]

\* line 62
CleanText(trans_text) == Join(SplitWords(trans_text))

\* one pass of the loop body, lines 57-107, on one chunk
ProcessOne(trans_text) ==
    IF StripIsEmpty(trans_text) THEN [kind |-> "empty"]
    ELSE LET clean_text == CleanText(trans_text)
             match == PatternSearch(clean_text)
         IN  IF match = None THEN [kind |-> "nomatch"] ELSE Coerce(match)

----------------------------------------------------------------------------
(* Section Locator, lines 28-50 *)

\* lines 43-47: end_index
EndIndex(text) ==
    IF Find(text, EndMarker) = -1 THEN Find(text, FallbackMarker) ELSE Find(text, EndMarker)

\* lines 37-50: transaction_block, for a text that holds start_marker
TransactionBlock(text) ==
    LET start_index == Find(text, StartMarker) + Len(StartMarker)
        end_index == EndIndex(text)
    IN  IF end_index # -1 THEN Slice(text, start_index, end_index) ELSE SliceFrom(text, start_index)

----------------------------------------------------------------------------
(* Page texts the renderer may return.  A body is at most MaxLines         *)
(* transaction lines, at most one of them not the standard line; a page    *)
(* is a body inside the standard frame, or the standard line inside one    *)
(* of the marker placements.  The first page of a document ranges over     *)
(* all of these, the pages after it over the framed bodies of at most one  *)
(* line.                                                                   *)

RECURSIVE Concat(_)
Concat(ss) == IF ss = <<>> THEN <<>> ELSE Head(ss) \o Concat(Tail(ss))

SP == <<" ">>
NL == <<"\n">>
HKD == <<"H", "K", "D">>
ADR == <<"A", "D", "R">>
Ab == <<"A", "b">>
Code == <<"(", "1", ")">>
Dec == <<"2", ".", "5">>
Dec2 == <<"0", ".", "5">>
Whole == <<"1", ",", "0", "0", "0">>
Whole2 == <<"2", "0">>
TwoDots == <<"1", ".", "2", ".", "5">>
LoneDot == <<".">>
Huge == <<"N">>
Amt == <<"2", ",", "5", "0", "0", ".", "0">>
Chg == <<"-", "2", ".", "5">>

\* keyword, label, the tokens from the currency to the second numeric, on one physical line
Line(kw, label, mid) == Concat(<<kw, SP, label, SP, mid, SP, Amt, SP, Chg, NL>>)

Mid(ccy, n1, n2) == Concat(<<ccy, SP, n1, SP, n2>>)

StdLine == Line(KBuy, Concat(<<Ab, SP, Code>>), Mid(HKD, Dec, Whole))

OtherLines ==
    { Line(KSell, Ab, Mid(HKD, Whole, Dec)),
      Line(KBuy, Ab, Mid(HKD, Dec, Dec2)),
      Line(KBuy, Ab, Mid(HKD, Whole, Whole2)),
      Line(KBuy, Ab, Mid(HKD, TwoDots, Whole)),
      Line(KBuy, Ab, Mid(HKD, Dec, LoneDot)),
      Line(KSell, Ab, Mid(HKD, Dec, Huge)),
      Line(KSell, Concat(<<Ab, NL, Code>>), Mid(HKD, Whole, Dec)),
      Line(KBuy, Concat(<<Ab, SP, ADR, NL, Code>>), Mid(HKD, Dec, Whole)),
      Line(KBuy, Concat(<<Ab, SP, ADR, SP, Code>>), Mid(HKD, Dec, Whole)),
      Line(KBuy, Ab, Mid(<<"x">>, Dec, Whole)),
      KSell \o Line(KBuy, Ab, Mid(HKD, Dec, Whole)),
      Concat(<<SP, NL>>) }

Bodies ==
    UNION { { Concat(b) : b \in { c \in [1..n -> OtherLines \cup {StdLine}] :
                                    Cardinality({k \in 1..n : c[k] # StdLine}) <= 1 } }
            : n \in 0..MaxLines }

Total == Concat(<<EndMarker, SP, Amt, NL>>)
Funds == Concat(<<FallbackMarker, NL>>)

Tails == { <<>>, Total, Funds, Total \o Funds, Funds \o Total }

Heads == { <<>>, Total, StdLine }

Framed(b) == Concat(<<SectionMarker, NL, StartMarker, NL, b, Total>>)

FramedTexts == { Framed(b) : b \in Bodies }

LaterPageTexts == { Framed(b) : b \in OtherLines \cup {StdLine, <<>>} }

MarkerTexts ==
    { Concat(<<SectionMarker, NL, h, hdr, StdLine, t>>) :
        h \in Heads, hdr \in {<<>>, StartMarker \o NL}, t \in Tails }

UnmarkedText == Concat(<<StartMarker, NL, StdLine, Total>>)

PageTexts == FramedTexts \cup MarkerTexts \cup {UnmarkedText, <<>>}

----------------------------------------------------------------------------
(* The state of one call of extract_transactions and of the display block  *)

VARIABLES
    pc,                      \* position in the code
    numPages,                \* len(pdf.pages)
    pageIdx,                 \* number of pages the page loop has taken
    text,                    \* line 26
    transaction_block,       \* line 50
    individual_transactions, \* line 54
    chunkIdx,                \* number of chunks the chunk loop has taken
    transactions,            \* line 20
    provenance,              \* for each record, the page and the chunk it came from
    outcome,                 \* what the last chunk taken came to
    returned,                \* the value extract_transactions returns
    stError,                 \* st.error was called (line 118)
    failure,                 \* what raised into the outer try: "none", "open" or "render"
    shown                    \* what the display block shows (lines 155-168)

vars == <<pc, numPages, pageIdx, text, transaction_block, individual_transactions,
          chunkIdx, transactions, provenance, outcome, returned, stError, failure, shown>>

pageLocals == <<text, transaction_block, individual_transactions, chunkIdx>>

Init ==
    /\ pc = "open"
    /\ numPages = 0
    /\ pageIdx = 0
    /\ text = <<>>
    /\ transaction_block = <<>>
    /\ individual_transactions = <<>>
    /\ chunkIdx = 0
    /\ transactions = <<>>
    /\ provenance = <<>>
    /\ outcome = "none"
    /\ returned = None
    /\ stError = FALSE
    /\ failure = "none"
    /\ shown = "nothing"

\* the page's local names are dead once the loop moves on: lines 26, 50 and 54
\* rebind them before any read
ClearPageLocals ==
    /\ text' = <<>>
    /\ transaction_block' = <<>>
    /\ individual_transactions' = <<>>
    /\ chunkIdx' = 0

\* the record put at the front
AppendRecordAtFront(ts, r) == <<r>> \o ts

\* transactions.append(r), line 96
AppendRecord(ts, r) == Append(ts, r)

\* the handler without its st.error
OuterExceptSilent ==
    /\ stError' = stError
    /\ returned' = None
    /\ pc' = "display"

\* the handler of the outer try, lines 117-119
OuterExcept ==
    /\ stError' = TRUE
    /\ returned' = None
    /\ pc' = "display"

\* line 23: pdfplumber.open succeeds
OpenOk ==
    /\ pc = "open"
    /\ \E n \in 0..MaxPages : numPages' = n
    /\ pc' = "pages"
    /\ UNCHANGED <<pageIdx, pageLocals, transactions, provenance, outcome, returned, stError, failure, shown>>

\* line 23: pdfplumber.open raises
OpenFails ==
    /\ pc = "open"
    /\ OuterExcept
    /\ failure' = "open"
    /\ UNCHANGED <<numPages, pageIdx, pageLocals, transactions, provenance, outcome, shown>>

\* lines 24-26: the loop takes a page and extract_text returns its text
ExtractText ==
    /\ pc = "pages"
    /\ pageIdx < numPages
    /\ \E t \in (IF pageIdx = 0 THEN PageTexts ELSE LaterPageTexts) : text' = t
    /\ pageIdx' = pageIdx + 1
    /\ pc' = "locate"
    /\ UNCHANGED <<numPages, transaction_block, individual_transactions, chunkIdx,
                   transactions, provenance, outcome, returned, stError, failure, shown>>

\* line 26: extract_text raises, outside the inner try
ExtractTextRaises ==
    /\ pc = "pages"
    /\ pageIdx < numPages
    /\ pageIdx' = pageIdx + 1
    /\ OuterExcept
    /\ failure' = "render"
    /\ ClearPageLocals
    /\ UNCHANGED <<numPages, transactions, provenance, outcome, shown>>

\* lines 28-29 and 38-39: the page is skipped
SkipPage ==
    /\ pc = "locate"
    /\ \/ text = <<>>
       \/ ~Contains(text, SectionMarker)
       \/ Find(text, StartMarker) = -1
    /\ pc' = "pages"
    /\ ClearPageLocals
    /\ UNCHANGED <<numPages, pageIdx, transactions, provenance, outcome, returned, stError, failure, shown>>

\* lines 28-54: the block is cut out and split
LocateBlock ==
    /\ pc = "locate"
    /\ text # <<>>
    /\ Contains(text, SectionMarker)
    /\ Find(text, StartMarker) # -1
    /\ transaction_block' = TransactionBlock(text)
    /\ individual_transactions' = ReSplit(TransactionBlock(text))
    /\ chunkIdx' = 0
    /\ pc' = "chunks"
    /\ UNCHANGED <<numPages, pageIdx, text, transactions, provenance, outcome, returned, stError, failure, shown>>

\* lines 56-104: the chunk gives a record
ChunkAppend ==
    /\ pc = "chunks"
    /\ chunkIdx < Len(individual_transactions)
    /\ LET r == ProcessOne(individual_transactions[chunkIdx + 1])
       IN  /\ r.kind = "record"
           /\ transactions' = AppendRecord(transactions, r.rec)
           /\ provenance' = Append(provenance, <<pageIdx, chunkIdx>>)
           /\ outcome' = r.kind
    /\ chunkIdx' = chunkIdx + 1
    /\ UNCHANGED <<pc, numPages, pageIdx, text, transaction_block, individual_transactions,
                   returned, stError, failure, shown>>

\* lines 57-58, 72, 105-107: the chunk is blank, does not match, or float() raises ValueError
ChunkSkip ==
    /\ pc = "chunks"
    /\ chunkIdx < Len(individual_transactions)
    /\ LET r == ProcessOne(individual_transactions[chunkIdx + 1])
       IN  /\ r.kind \in {"empty", "nomatch", "ValueError"}
           /\ outcome' = r.kind
    /\ chunkIdx' = chunkIdx + 1
    /\ UNCHANGED <<pc, numPages, pageIdx, text, transaction_block, individual_transactions,
                   transactions, provenance, returned, stError, failure, shown>>

\* line 99 raises OverflowError, which line 105 does not catch and line 108 does
ChunkAbort ==
    /\ pc = "chunks"
    /\ chunkIdx < Len(individual_transactions)
    /\ LET r == ProcessOne(individual_transactions[chunkIdx + 1])
       IN  /\ r.kind = "OverflowError"
           /\ outcome' = r.kind
    /\ pc' = "pages"
    /\ ClearPageLocals
    /\ UNCHANGED <<numPages, pageIdx, transactions, provenance, returned, stError, failure, shown>>

\* line 56: the chunk loop ends
ChunksDone ==
    /\ pc = "chunks"
    /\ chunkIdx = Len(individual_transactions)
    /\ pc' = "pages"
    /\ ClearPageLocals
    /\ UNCHANGED <<numPages, pageIdx, transactions, provenance, outcome, returned, stError, failure, shown>>

\* lines 112-115
Return ==
    /\ pc = "pages"
    /\ pageIdx = numPages
    /\ returned' = IF transactions # <<>> THEN [kind |-> "DataFrame", rows |-> transactions] ELSE None
    /\ pc' = "display"
    /\ ClearPageLocals
    /\ UNCHANGED <<numPages, pageIdx, transactions, provenance, outcome, stError, failure, shown>>

\* lines 154-168
Display ==
    /\ pc = "display"
    /\ shown' = IF returned # None /\ returned.rows # <<>> THEN "dataframe" ELSE "warning"
    /\ pc' = "done"
    /\ UNCHANGED <<numPages, pageIdx, pageLocals, transactions, provenance, outcome, returned, stError, failure>>

Next ==
    \/ OpenOk
    \/ OpenFails
    \/ ExtractText
    \/ ExtractTextRaises
    \/ SkipPage
    \/ LocateBlock
    \/ ChunkAppend
    \/ ChunkSkip
    \/ ChunkAbort
    \/ ChunksDone
    \/ Return
    \/ Display

Spec == Init /\ [][Next]_vars

----------------------------------------------------------------------------
(* Properties *)

\* the chunk the chunk loop takes next, and what the recognizer sees of it
Chunk == individual_transactions[chunkIdx + 1]
ChunkWords == SplitWords(Chunk)
ChunkMatch == PatternSearch(Join(ChunkWords))
TakesChunk == pc = "chunks" /\ chunkIdx < Len(individual_transactions)
Appends == Len(transactions') = Len(transactions) + 1
LastRecord == transactions'[Len(transactions')]

HasDot(lit) == \E k \in 1..Len(lit) : lit[k] = "."
\* the value of a numeric literal, grouping commas dropped
LiteralValue(lit) == ToFloat(RemoveCommas(lit))
\* the integer a literal without a decimal point denotes
IntegerValue(lit) == DigitsVal(RemoveCommas(lit))

\* C1: when exactly one of the two numeric literals after the currency holds
\* a decimal point, the record's price is the value of that literal and its
\* quantity the integer value of the other, in either order.
C1_PriceIsTheDecimalLiteral ==
    [][(TakesChunk /\ Appends /\ ChunkMatch # None) =>
        /\ (HasDot(ChunkMatch.group4) /\ ~HasDot(ChunkMatch.group5)) =>
              /\ LastRecord.Price = LiteralValue(ChunkMatch.group4)
              /\ LastRecord.Quantity = IntegerValue(ChunkMatch.group5)
        /\ (~HasDot(ChunkMatch.group4) /\ HasDot(ChunkMatch.group5)) =>
              /\ LastRecord.Price = LiteralValue(ChunkMatch.group5)
              /\ LastRecord.Quantity = IntegerValue(ChunkMatch.group4)]_vars

\* a record was just made from a chunk whose second literal is the decimal one
C1_Witness ==
    /\ pc = "chunks"
    /\ chunkIdx >= 1
    /\ outcome = "record"
    /\ LET m == PatternSearch(Join(SplitWords(individual_transactions[chunkIdx])))
           r == transactions[Len(transactions)]
       IN  /\ m # None
           /\ ~HasDot(m.group4)
           /\ HasDot(m.group5)
           /\ r.Price = LiteralValue(m.group5)
           /\ r.Quantity = 1000

\* C2: a matching chunk whose two numeric literals both hold a decimal point,
\* or both hold none, appends no record.
C2_AmbiguousIsRejected ==
    [][(TakesChunk /\ ChunkMatch # None
          /\ (HasDot(ChunkMatch.group4) <=> HasDot(ChunkMatch.group5)))
        => transactions' = transactions]_vars

\* C3: a chunk whose fields fail to coerce is the only thing lost: no record
\* is added or dropped, and when the page has later chunks the loop goes on
\* to the next of them.
C3_FailureIsLocal ==
    [][(TakesChunk /\ ChunkMatch # None /\ Coerce(ChunkMatch).kind # "record"
          /\ chunkIdx + 1 < Len(individual_transactions)) =>
        /\ transactions' = transactions
        /\ pc' = "chunks"
        /\ individual_transactions' = individual_transactions
        /\ chunkIdx' = chunkIdx + 1]_vars

Before(a, b) == a[1] < b[1] \/ (a[1] = b[1] /\ a[2] < b[2])

\* C4: the records are in page order and, within a page, in chunk order, and
\* the collection changes only by a record being added at its end.
C4_DocumentOrder ==
    /\ [](/\ Len(provenance) = Len(transactions)
          /\ \A a, b \in 1..Len(provenance) : a < b => Before(provenance[a], provenance[b]))
    /\ [][\/ transactions' = transactions
          \/ /\ TakesChunk
             /\ ProcessOne(Chunk).kind = "record"
             /\ transactions' = Append(transactions, ProcessOne(Chunk).rec)
             /\ provenance' = Append(provenance, <<pageIdx, chunkIdx>>)]_vars

\* three records: the first two from two chunks of one page, the third from
\* a later page
C4_Witness ==
    /\ Len(transactions) >= 3
    /\ \E a, b, c \in 1..Len(provenance) :
          /\ a < b /\ b < c
          /\ provenance[a][1] = provenance[b][1]
          /\ provenance[a][2] < provenance[b][2]
          /\ provenance[b][1] < provenance[c][1]
          /\ transactions[a] # transactions[b]
          /\ transactions[b] # transactions[c]

\* the words of the chunk's first physical line
FirstLineWords(raw) == SplitWords(Slice(raw, 0, Find(raw, NL)))

\* the first physical line holds the keyword and label words, and the chunk
\* goes on after the line break
WrappedLabel(raw) ==
    /\ Find(raw, NL) # -1
    /\ Len(FirstLineWords(raw)) >= 2
    /\ FirstLineWords(raw)[1] \in {KSell, KBuy}
    /\ Len(SplitWords(raw)) > Len(FirstLineWords(raw))

\* the first standalone three-uppercase-letter word from the third word on
CurrencyIndex(words) ==
    CHOOSE j \in 3..Len(words) : IsCcy(words[j]) /\ \A k \in 3..(j - 1) : ~IsCcy(words[k])

C7_RecordFollowsGrammar ==
    [][(TakesChunk /\ Appends) =>
        \E j \in 3..(Len(ChunkWords) - 4) :
            /\ ChunkWords[1] \in {KSell, KBuy}
            /\ IsCcy(ChunkWords[j])
            /\ IsNum(ChunkWords[j + 1])
            /\ IsNum(ChunkWords[j + 2])
            /\ IsSignedNum(ChunkWords[j + 3])
            /\ IsSignedNum(ChunkWords[j + 4])
            /\ LastRecord.Currency = ChunkWords[j]
            /\ LastRecord.StockName = Join(SubSeq(ChunkWords, 2, j - 1))
            /\ LastRecord.Price \in {LiteralValue(ChunkWords[j + 1]), LiteralValue(ChunkWords[j + 2])}
            /\ LastRecord.Amount = LiteralValue(ChunkWords[j + 3])
            /\ LastRecord.NetChange = LiteralValue(ChunkWords[j + 4])]_vars

StartsKeyword(s, p) ==
    /\ p + 4 <= Len(s)
    /\ SubSeq(s, p + 1, p + 4) \in {KSell, KBuy}

\* C8: the chunks concatenate to the block, every keyword of the block starts
\* a chunk, no chunk holds a keyword past its start, and a blank chunk gives
\* no candidate.
C8_SplitAtKeywords ==
    /\ [](pc = "chunks" =>
            /\ Concat(individual_transactions) = transaction_block
            /\ \A k \in 1..Len(individual_transactions) :
                  /\ \A p \in 1..Len(individual_transactions[k]) :
                        ~StartsKeyword(individual_transactions[k], p)
                  /\ k > 1 => StartsKeyword(individual_transactions[k], 0)
            /\ \A p \in 0..Len(transaction_block) :
                  StartsKeyword(transaction_block, p) =>
                      \E k \in 1..Len(individual_transactions) :
                          Len(Concat(SubSeq(individual_transactions, 1, k))) = p)
    /\ [][(TakesChunk /\ \A k \in 1..Len(Chunk) : Chunk[k] \in {" ", "\n"})
            => (outcome' = "empty" /\ transactions' = transactions)]_vars

\* the sell keyword stands right before the buy keyword in the block and is a
\* chunk of its own
C8_Witness ==
    /\ pc = "chunks"
    /\ \E p \in 0..(Len(transaction_block) - 8) :
          /\ SubSeq(transaction_block, p + 1, p + 8) = KSell \o KBuy
          /\ \E k \in 1..(Len(individual_transactions) - 1) :
                /\ individual_transactions[k] = KSell
                /\ StartsKeyword(individual_transactions[k + 1], 0)

HeaderEnd == Find(text, StartMarker) + Len(StartMarker)

\* m stands in the text at or after the end of the column header
After(m) == \E p \in HeaderEnd..Len(text) : MatchAt(text, m, p)

\* the text from the end of the column header up to the next m
UpTo(m) ==
    LET p == CHOOSE q \in HeaderEnd..Len(text) :
                /\ MatchAt(text, m, q)
                /\ \A r \in HeaderEnd..(q - 1) : ~MatchAt(text, m, r)
    IN  Slice(text, HeaderEnd, p)

\* C9: the block is what stands between the column header and the terminal
\* marker that follows it, also when the terminal marker stands before the
\* header as well; between the header and the secondary marker when the page
\* has no terminal marker; the rest of the page when it has neither.
C9_BlockBetweenMarkers ==
    pc = "chunks" =>
        /\ After(EndMarker) => transaction_block = UpTo(EndMarker)
        /\ (~Contains(text, EndMarker) /\ After(FallbackMarker)) =>
              transaction_block = UpTo(FallbackMarker)
        /\ (~Contains(text, EndMarker) /\ ~Contains(text, FallbackMarker)) =>
              transaction_block = SliceFrom(text, HeaderEnd)

\* C10: every record collected is in what extract_transactions returns.
C10_NothingCollectedIsLost ==
    pc \in {"display", "done"} =>
        \A k \in 1..Len(transactions) :
            /\ returned # None
            /\ \E n \in 1..Len(returned.rows) : returned.rows[n] = transactions[k]

====
